---- MODULE Spec2Model ----
\* Model of src/udemy-transcript-copier.user.js: the settings record with
\* its load, its save and the settings panel, the header/transcript
\* composition of handleCopyClick, the clipboard write with its fallback, the
\* label-revert timers, and the MutationObserver that injects the control.
EXTENDS Integers, Sequences, FiniteSets, TLC

VARIABLES
    userSettings,   \* the in-memory settings record (line 43)
    store,          \* the value stored under SETTINGS_KEY
    dom,            \* the DOM elements the header reads
    moduleArgs,     \* the data-module-args attribute of .ud-app-loader
    panel,          \* the transcript panel: [present, cues]
    label,          \* textContent of the copy button
    labelBy,        \* the invocation that set the current result label, 0 = none
    clipboard,      \* content of the system clipboard, as a sequence of lines
    calls,          \* running handleCopyClick invocations suspended at the await (line 343)
    timers,         \* pending setTimeout callbacks of handleCopyClick
    nclicks,        \* number of handleCopyClick invocations started so far
    last,           \* what the most recent step of an invocation did
    sidebar,        \* instance number of the transcript sidebar in the document, 0 = none
    nsidebars,      \* number of sidebar instances the host page has rendered so far
    observing,      \* is the MutationObserver still connected
    loads,          \* loadSettings() promises whose .then(injectUI) has not run yet
    detected,       \* sidebar instances for which the observer started an injection
    uiContainers,   \* per sidebar instance, the number of #utc-ui-container elements in it
    checkboxes,     \* the checked state of the settings panel's checkboxes, by name
    settingsShown,  \* is the settings panel displayed (style.display is not 'none')
    saveLabel,      \* textContent of the save button
    saveTimers,     \* number of pending setTimeout callbacks of saveSettings
    saved           \* the record in memory after the latest saveSettings, if any

vars == <<userSettings, store, dom, moduleArgs, panel, label, labelBy, clipboard,
          calls, timers, nclicks, last, sidebar, nsidebars, observing, loads,
          detected, uiContainers, checkboxes, settingsShown, saveLabel,
          saveTimers, saved>>

\* The settings panel and the record of the latest save.
settingsUI == <<checkboxes, settingsShown, saveLabel, saveTimers, saved>>

-----------------------------------------------------------------------------
\* Bounds of the model.

\* Largest number of cue-text elements in the transcript panel.
MaxLines == 2
\* Largest number of clicks on the copy button in one behaviour.
MaxClicks == 2
\* Largest number of sidebar instances the host page renders in one behaviour.
MaxSidebars == 2
\* Largest number of save-button timers pending at once.
MaxSaveTimers == 1

-----------------------------------------------------------------------------
\* Values.

SettingKeys ==
    {"includeCourseTitle", "includeCourseSubtitle", "includeSectionLecture",
     "includeInstructors", "includeRating", "includeLength",
     "includeLastUpdated", "includeCaptions", "includeLanguage"}

DEFAULT_SETTINGS == [k \in SettingKeys |-> TRUE]

AllSettings == [SettingKeys -> BOOLEAN]

\* JSON values are tagged records: t is the JavaScript type.
Undef == [t |-> "undef"]
Num(n) == [t |-> "num", v |-> n]        \* n in thousandths
Str(s) == [t |-> "str", v |-> s]
List(q) == [t |-> "list", v |-> q]

\* JavaScript truthiness of a JSON value.
Truthy(x) ==
    CASE x.t = "undef" -> FALSE
      [] x.t = "num" -> x.v # 0
      [] x.t = "str" -> x.v # ""
      [] OTHER -> TRUE

\* Property access x.f: undefined on a value that has no such property.
Get(x, f) == IF x.t = "obj" /\ f \in DOMAIN x THEN x[f] ELSE Undef

-----------------------------------------------------------------------------
\* String helpers.

IsSpace(c) == c \in {" ", "\t", "\n"}

RECURSIVE TrimLeft(_)
TrimLeft(s) ==
    IF Len(s) > 0 /\ IsSpace(SubSeq(s, 1, 1))
    THEN TrimLeft(SubSeq(s, 2, Len(s)))
    ELSE s

RECURSIVE TrimRight(_)
TrimRight(s) ==
    IF Len(s) > 0 /\ IsSpace(SubSeq(s, Len(s), Len(s)))
    THEN TrimRight(SubSeq(s, 1, Len(s) - 1))
    ELSE s

\* String.prototype.trim
Trim(s) == TrimRight(TrimLeft(s))

\* Array.prototype.join(sep) on a sequence of strings.
RECURSIVE JoinWith(_, _)
JoinWith(q, sep) ==
    IF Len(q) = 0 THEN ""
    ELSE IF Len(q) = 1 THEN q[1]
    ELSE q[1] \o sep \o JoinWith(Tail(q), sep)

Pad(n, w) ==
    IF w = 3 /\ n < 10 THEN "00" \o ToString(n)
    ELSE IF (w = 3 /\ n < 100) \/ (w = 2 /\ n < 10) THEN "0" \o ToString(n)
    ELSE ToString(n)

\* Number.prototype.toFixed(2) of n thousandths.
ToFixed2(n) ==
    LET h == (n + 5) \div 10
    IN ToString(h \div 100) \o "." \o Pad(h % 100, 2)

\* Integer grouping of toLocaleString (en-US): 12345 -> "12,345".
RECURSIVE Grouped(_)
Grouped(n) ==
    IF n < 1000 THEN ToString(n)
    ELSE Grouped(n \div 1000) \o "," \o Pad(n % 1000, 3)

\* The fraction digits of f thousandths, trailing zeros dropped.
Fraction(f) ==
    IF f % 100 = 0 THEN ToString(f \div 100)
    ELSE IF f % 10 = 0 THEN Pad(f \div 10, 2)
    ELSE Pad(f, 3)

\* x.toLocaleString() for a truthy JSON value x.
ToLocaleString(x) ==
    CASE x.t = "num" ->
            Grouped(x.v \div 1000)
                \o (IF x.v % 1000 = 0 THEN "" ELSE "." \o Fraction(x.v % 1000))
      [] x.t = "str" -> x.v
      [] x.t = "list" -> JoinWith(x.v, ",")
      [] OTHER -> "[object Object]"

\* `${x}` in a template literal, for a truthy JSON value x.
Interp(x) ==
    CASE x.t = "str" -> x.v
      [] x.t = "num" ->
            ToString(x.v \div 1000)
                \o (IF x.v % 1000 = 0 THEN "" ELSE "." \o Fraction(x.v % 1000))
      [] x.t = "list" -> JoinWith(x.v, ",")
      [] OTHER -> "[object Object]"

-----------------------------------------------------------------------------
\* Settings (lines 28-59).

\* The keys of DEFAULT_SETTINGS in the order of lines 32-40.
KeyOrder ==
    <<"includeCourseTitle", "includeCourseSubtitle", "includeSectionLecture",
      "includeInstructors", "includeRating", "includeLength",
      "includeLastUpdated", "includeCaptions", "includeLanguage">>

RECURSIVE SeqOfSet(_)
SeqOfSet(S) ==
    IF S = {} THEN <<>>
    ELSE LET x == CHOOSE y \in S : TRUE IN <<x>> \o SeqOfSet(S \ {x})

\* JSON.stringify of a record of flags: the JSON text, kept as the sequence
\* of its key/value members, or "garbage" for a text that is no JSON.
stringify(rec) ==
    LET known == SelectSeq(KeyOrder, LAMBDA k : k \in DOMAIN rec)
        keys == known \o SeqOfSet(DOMAIN rec \ SettingKeys)
    IN [ok |-> TRUE, members |-> [i \in 1..Len(keys) |-> <<keys[i], rec[keys[i]]>>]]

Garbage == [ok |-> FALSE, members |-> <<>>]

\* JSON.parse of a JSON object text: a later member wins over an earlier one
\* of the same key.
parse(text) ==
    LET ms == text.members
        keys == {ms[i][1] : i \in 1..Len(ms)}
        lastOf(k) == CHOOSE i \in 1..Len(ms) :
                        ms[i][1] = k /\ \A j \in (i + 1)..Len(ms) : ms[j][1] # k
    IN [k \in keys |-> ms[lastOf(k)][2]]

\* A spread in which the left operand wins: { ...b, ...a }.
SpreadLeftWins(a, b) ==
    [k \in DOMAIN a \cup DOMAIN b |-> IF k \in DOMAIN a THEN a[k] ELSE b[k]]

\* { ...a, ...b }
Spread(a, b) ==
    [k \in DOMAIN a \cup DOMAIN b |-> IF k \in DOMAIN b THEN b[k] ELSE a[k]]

\* GM_getValue(SETTINGS_KEY, JSON.stringify(DEFAULT_SETTINGS)) (line 49).
GM_getValue(st) ==
    IF st.kind = "absent" THEN stringify(DEFAULT_SETTINGS) ELSE st.text

\* loadSettings without the merge of line 53: userSettings = parsed.
loadSettingsNoMerge(st) ==
    LET storedSettings == GM_getValue(st)
    IN IF storedSettings.ok
       THEN parse(storedSettings)
       ELSE DEFAULT_SETTINGS

\* loadSettings (lines 48-59): the new userSettings.
loadSettings(st) ==
    LET storedSettings == GM_getValue(st)
    IN IF storedSettings.ok
       THEN Spread(DEFAULT_SETTINGS, parse(storedSettings))
       ELSE DEFAULT_SETTINGS

NoStore == [kind |-> "absent", text |-> Garbage]

\* The stored values the model starts from: nothing, a text that does not
\* parse, a record written by an older version that lacks some flags, a
\* full record, a record with a key that is no flag of this version, and a
\* JSON text without members (such as {}, null or 5, whose spread adds
\* nothing).
Stores ==
    {NoStore,
     [kind |-> "text", text |-> Garbage],
     [kind |-> "text",
      text |-> stringify([k \in {"includeRating", "includeLength"} |-> FALSE])],
     [kind |-> "text",
      text |-> stringify([k \in SettingKeys |->
                            k \in {"includeSectionLecture", "includeCourseTitle"}])],
     [kind |-> "text",
      text |-> stringify([k \in {"includeLanguage", "includeCaptions", "showTimestamps"}
                            |-> k = "includeCaptions"])],
     [kind |-> "text", text |-> [ok |-> TRUE, members |-> <<>>]]}

-----------------------------------------------------------------------------
\* The settings panel (lines 64-173).

\* textContent of the save button (lines 109, 84) and after a save (line 82).
SaveLabel == "Save Settings"
SavedLabel == "Saved!"

\* The checkboxes before the settings panel is created.
NoCheckboxes == [k \in {} |-> FALSE]

\* No saveSettings has run.
NotSaved == [valid |-> FALSE, rec |-> DEFAULT_SETTINGS]

\* loadSettingsToUI (lines 128-158): one checkbox for every key of
\* userSettings, checked when the value is truthy.
loadSettingsToUI(us) == [k \in DOMAIN us |-> us[k] = TRUE]

\* saveSettings whose loop of lines 69-74 runs after the write of line 76.
saveSettingsStale(us, cb) ==
    [settings |-> [k \in DOMAIN us \cup (SettingKeys \cap DOMAIN cb) |->
                     IF k \in SettingKeys \cap DOMAIN cb THEN cb[k] ELSE us[k]],
     stored |-> [kind |-> "text", text |-> stringify(us)]]

\* saveSettings (lines 64-77) with the settings panel in the document:
\* userSettings after the loop of lines 69-74 and the value GM_setValue
\* stores (line 76).
saveSettings(us, cb) ==
    LET settings == [k \in DOMAIN us \cup (SettingKeys \cap DOMAIN cb) |->
                        IF k \in SettingKeys \cap DOMAIN cb THEN cb[k] ELSE us[k]]
    IN [settings |-> settings,
        stored |-> [kind |-> "text", text |-> stringify(settings)]]

\* toggleSettingsPanel (lines 163-173) with the panel in the document:
\* <<settingsShown', checkboxes'>>. The checkboxes are rebuilt from
\* userSettings when the panel was hidden.
toggleSettingsPanel(shown, us, cb) ==
    IF shown THEN <<FALSE, cb>> ELSE <<TRUE, loadSettingsToUI(us)>>

-----------------------------------------------------------------------------
\* The page as handleCopyClick reads it.

\* The result of document.querySelector for an element whose text is read.
NoEl == [found |-> FALSE, text |-> ""]
El(s) == [found |-> TRUE, text |-> s]

\* getCourseData: the parsed blob, or Undef when the element or attribute is
\* missing or JSON.parse throws.
getCourseData(margs) ==
    IF ~margs.present THEN Undef
    ELSE IF ~margs.parses THEN Undef
    ELSE margs.data

\* The section and lecture titles read from the sidebar (lines 232-238, 304-310).
lectureTitle(d) ==
    IF d.lectureTitle.found THEN Trim(d.lectureTitle.text) ELSE "Unknown Lecture"

sectionTitle(d) ==
    IF d.sectionTitle.found THEN Trim(d.sectionTitle.text) ELSE "Unknown Section"

\* Lines 213-226: the course title and subtitle lines.
TitleLines(s, d) ==
    (IF s.includeCourseTitle /\ d.courseTitle.found
     THEN <<"# " \o Trim(d.courseTitle.text)>> ELSE <<>>)
    \o
    (IF s.includeCourseSubtitle /\ d.courseSubtitle.found
     THEN <<"## *" \o Trim(d.courseSubtitle.text) \o "*">> ELSE <<>>)

\* SectionLectureLines with the two pushes of lines 239-240 exchanged.
SectionLectureLinesSwapped(s, d) ==
    IF s.includeSectionLecture
    THEN <<"**Lecture:** " \o lectureTitle(d),
           "**Section:** " \o sectionTitle(d),
           "---">>
    ELSE <<>>

\* Lines 231-242: the section/lecture block with its separator.
SectionLectureLines(s, d) ==
    IF s.includeSectionLecture
    THEN <<"**Section:** " \o sectionTitle(d),
           "**Lecture:** " \o lectureTitle(d),
           "---">>
    ELSE <<>>

\* Lines 248-253: the instructors bullet.
InstructorLines(s, cd) ==
    IF s.includeInstructors /\ Truthy(Get(cd, "instructorInfo"))
       /\ Truthy(Get(Get(cd, "instructorInfo"), "instructors_info"))
    THEN LET infos == Get(Get(cd, "instructorInfo"), "instructors_info").v
             each == [i \in 1..Len(infos) |->
                        infos[i].title \o " (" \o infos[i].job_title \o ")"]
         IN <<"* **Instructors:** " \o JoinWith(each, ", ")>>
    ELSE <<>>

\* Lines 258-262: the rating bullet.
RatingLines(s, lead) ==
    IF s.includeRating
    THEN LET rating == IF Truthy(Get(lead, "rating"))
                       THEN ToFixed2(Get(lead, "rating").v) ELSE "N/A"
             reviews == IF Truthy(Get(lead, "num_reviews"))
                        THEN ToLocaleString(Get(lead, "num_reviews")) ELSE "N/A"
         IN <<"* **Rating:** " \o rating \o " (" \o reviews \o " reviews)">>
    ELSE <<>>

\* LeadLines with the length bullet not guarded by its flag.
LeadLinesAnyFlag(s, lead) ==
    (IF Truthy(Get(lead, "content_info_short"))
     THEN <<"* **Total Length:** " \o Interp(Get(lead, "content_info_short"))>>
     ELSE <<>>)
    \o
    (IF s.includeLastUpdated /\ Truthy(Get(lead, "last_update_date"))
     THEN <<"* **Last Updated:** " \o Interp(Get(lead, "last_update_date"))>>
     ELSE <<>>)
    \o
    (IF s.includeCaptions /\ Get(lead, "captionedLanguages").t = "list"
        /\ Len(Get(lead, "captionedLanguages").v) > 0
     THEN <<"* **Captions:** " \o JoinWith(Get(lead, "captionedLanguages").v, ", ")>>
     ELSE <<>>)

\* Lines 263-271: length, last update and captions bullets.
LeadLines(s, lead) ==
    (IF s.includeLength /\ Truthy(Get(lead, "content_info_short"))
     THEN <<"* **Total Length:** " \o Interp(Get(lead, "content_info_short"))>>
     ELSE <<>>)
    \o
    (IF s.includeLastUpdated /\ Truthy(Get(lead, "last_update_date"))
     THEN <<"* **Last Updated:** " \o Interp(Get(lead, "last_update_date"))>>
     ELSE <<>>)
    \o
    (IF s.includeCaptions /\ Get(lead, "captionedLanguages").t = "list"
        /\ Len(Get(lead, "captionedLanguages").v) > 0
     THEN <<"* **Captions:** " \o JoinWith(Get(lead, "captionedLanguages").v, ", ")>>
     ELSE <<>>)

\* Lines 256-272: the bullets taken from courseLeadData.
CourseLeadLines(s, cd) ==
    IF Truthy(Get(cd, "courseLeadData"))
    THEN RatingLines(s, cd.courseLeadData) \o LeadLines(s, cd.courseLeadData)
    ELSE <<>>

\* Lines 278-281: the text nodes of the language element, trimmed and joined.
langText(nodes) == JoinWith([i \in 1..Len(nodes) |-> Trim(nodes[i])], "")

\* Lines 275-286: the language bullet.
LanguageLines(s, d) ==
    IF s.includeLanguage /\ d.language.found /\ langText(d.language.text) # ""
    THEN <<"* **Language:** " \o langText(d.language.text)>>
    ELSE <<>>

\* Lines 245-286: detailsLines.
detailsLines(s, d, cd) ==
    InstructorLines(s, cd) \o CourseLeadLines(s, cd) \o LanguageLines(s, d)

\* Lines 288-292: the Course Details block with its heading and separator.
DetailsBlock(s, d, cd) ==
    IF Len(detailsLines(s, d, cd)) > 0
    THEN <<"**Course Details:**">> \o detailsLines(s, d, cd) \o <<"---">>
    ELSE <<>>

\* The conditions under which the try block of lines 211-295 throws a
\* TypeError: .map on a value that is no array, .toFixed on a value that is no
\* number, .join on a value that is no array.
HeaderThrows(s, cd) ==
    \/ /\ s.includeInstructors
       /\ Truthy(Get(cd, "instructorInfo"))
       /\ Truthy(Get(Get(cd, "instructorInfo"), "instructors_info"))
       /\ Get(Get(cd, "instructorInfo"), "instructors_info").t # "list"
    \/ /\ Truthy(Get(cd, "courseLeadData"))
       /\ \/ /\ s.includeRating
             /\ Truthy(Get(cd.courseLeadData, "rating"))
             /\ Get(cd.courseLeadData, "rating").t # "num"
          \/ /\ s.includeCaptions
             /\ Truthy(Get(cd.courseLeadData, "captionedLanguages"))
             /\ Get(cd.courseLeadData, "captionedLanguages").t = "str"

\* FullHeader with the separator of line 228 pushed unconditionally.
FullHeaderAlwaysSeparator(s, d, cd) ==
    TitleLines(s, d)
       \o <<"---">>
       \o SectionLectureLines(s, d)
       \o DetailsBlock(s, d, cd)
       \o <<"## Transcript\n">>

\* Lines 213-294: the header built from a parsed blob.
FullHeader(s, d, cd) ==
    LET titles == TitleLines(s, d)
    IN titles
       \o (IF Len(titles) > 0 THEN <<"---">> ELSE <<>>)
       \o SectionLectureLines(s, d)
       \o DetailsBlock(s, d, cd)
       \o <<"## Transcript\n">>

\* FallbackHeader followed by the heading of line 294.
FallbackHeaderWithHeading(s, d) ==
    (IF s.includeSectionLecture
     THEN <<"# " \o sectionTitle(d), "## " \o lectureTitle(d)>>
     ELSE <<>>)
    \o <<"## Transcript\n">>

\* Lines 303-313: the fallback header when there is no parsed blob.
FallbackHeader(s, d) ==
    IF s.includeSectionLecture
    THEN <<"# " \o sectionTitle(d), "## " \o lectureTitle(d) \o "\n">>
    ELSE <<>>

\* headerLines without line 298: after a throw in the details part the
\* lines pushed before it are kept.
headerLinesPartial(s, d, margs) ==
    LET courseData == getCourseData(margs)
        titles == TitleLines(s, d)
    IN IF Truthy(courseData)
       THEN IF HeaderThrows(s, courseData)
            THEN titles \o (IF Len(titles) > 0 THEN <<"---">> ELSE <<>>)
                    \o SectionLectureLines(s, d)
            ELSE FullHeader(s, d, courseData)
       ELSE FallbackHeader(s, d)

\* Lines 206-314: headerLines at the end of step 1.
headerLines(s, d, margs) ==
    LET courseData == getCourseData(margs)
    IN IF Truthy(courseData)
       THEN IF HeaderThrows(s, courseData) THEN <<>>
            ELSE FullHeader(s, d, courseData)
       ELSE FallbackHeader(s, d)

\* A text with newlines is kept as the sequence of its lines: "" is <<"">>,
\* "a\nb" is <<"a", "b">>, "a\n" is <<"a", "">>.
EmptyText == <<"">>

\* The lines of an array element; the elements pushed by handleCopyClick
\* hold a newline at their end or nowhere.
ElemLines(e) ==
    IF Len(e) > 0 /\ SubSeq(e, Len(e), Len(e)) = "\n"
    THEN <<SubSeq(e, 1, Len(e) - 1), "">>
    ELSE <<e>>

\* Array.prototype.join("\n"), as a text.
RECURSIVE JoinNL(_)
JoinNL(q) ==
    IF Len(q) = 0 THEN EmptyText
    ELSE IF Len(q) = 1 THEN ElemLines(q[1])
    ELSE ElemLines(q[1]) \o JoinNL(Tail(q))

\* String concatenation a + b of two texts: the last line of a and the
\* first line of b become one line.
Plus(a, b) ==
    SubSeq(a, 1, Len(a) - 1) \o <<a[Len(a)] \o b[1]>> \o SubSeq(b, 2, Len(b))

\* Lines 335-340: the text handed to the clipboard.
header(s, d, margs) == JoinNL(headerLines(s, d, margs))

\* transcriptLines without the trim of line 337.
transcriptLinesNoTrim(p) == JoinNL(p.cues)

\* Lines 336-338: the trimmed cue texts joined by newlines.
transcriptLines(p) == JoinNL([i \in 1..Len(p.cues) |-> Trim(p.cues[i])])

transcriptText(s, d, margs, p) == Plus(header(s, d, margs), transcriptLines(p))

\* transcriptStep without the check of lines 318-323.
transcriptStepNoPanelCheck(p) ==
    IF Len(p.cues) = 0 THEN "notext" ELSE "write"

\* transcriptStep without the check of lines 326-331.
transcriptStepNoEmptyCheck(p) ==
    IF ~p.present THEN "nopanel" ELSE "write"

\* Lines 317-331: what handleCopyClick does after building the header.
\* "nopanel" and "notext" end the invocation, "write" goes on to the clipboard.
transcriptStep(p) ==
    IF ~p.present THEN "nopanel"
    ELSE IF Len(p.cues) = 0 THEN "notext"
    ELSE "write"

-----------------------------------------------------------------------------
\* The pages the model draws from.

CourseTitleText == "  Learn TLA  "
CourseSubtitleText == "Specify systems"
SectionText == " Section 1: Intro "
LectureText == "1. Welcome"
LanguageNodes == <<" ", "English ", "">>

\* The text of the i-th cue-text span, with the white space the page puts
\* around it.
CueText(i) == IF i % 2 = 1 THEN " Hello " \o ToString(i) \o " " ELSE "foo  bar" \o ToString(i)

Cues(n) == [i \in 1..n |-> CueText(i)]

\* The transcript panel: missing, without cue-text elements, or with MaxLines
\* of them.
Panels ==
    {[present |-> FALSE, cues |-> <<>>]}
        \cup {[present |-> TRUE, cues |-> Cues(n)] : n \in {0, MaxLines}}

Instructors ==
    [t |-> "obj",
     instructors_info |->
        List(<<[title |-> "Ann Lee", job_title |-> "Engineer"],
               [title |-> "Bo Li", job_title |-> "Teacher"]>>)]

Ratings == {Undef, Num(0), Num(4666), Str("4.7")}
Reviews == {Undef, Num(0), Num(12345000), Str("12k")}
Lengths == {Undef, Str("12.5 total hours")}
Updates == {Undef, Str("11/2025")}
Captions == {Undef, List(<<"English", "French">>)}

Leads ==
    {Undef} \cup
    {[t |-> "obj", rating |-> r, num_reviews |-> n, content_info_short |-> l,
      last_update_date |-> u, captionedLanguages |-> c] :
        r \in Ratings, n \in Reviews, l \in Lengths, u \in Updates, c \in Captions}

Blobs ==
    {[t |-> "obj", instructorInfo |-> i, courseLeadData |-> l] :
        i \in {Undef, Instructors}, l \in Leads}

\* The data-module-args attribute: missing, unparsable, or a parsed blob.
ModuleArgs ==
    {[present |-> FALSE, parses |-> FALSE, data |-> Undef],
     [present |-> TRUE, parses |-> FALSE, data |-> Undef]}
        \cup {[present |-> TRUE, parses |-> TRUE, data |-> b] : b \in Blobs}

Doms ==
    [courseTitle : {NoEl, El(CourseTitleText)},
     courseSubtitle : {NoEl, El(CourseSubtitleText)},
     sectionTitle : {NoEl, El(SectionText)},
     lectureTitle : {NoEl, El(LectureText)},
     language : {NoEl, El(LanguageNodes)}]

FullLead ==
    [t |-> "obj", rating |-> Num(4666), num_reviews |-> Num(12345000),
     content_info_short |-> Str("12.5 total hours"),
     last_update_date |-> Str("11/2025"),
     captionedLanguages |-> List(<<"English", "French">>)]

FullBlob == [t |-> "obj", instructorInfo |-> Instructors, courseLeadData |-> FullLead]

BareBlob == [t |-> "obj", instructorInfo |-> Undef, courseLeadData |-> Undef]

FullDom ==
    [courseTitle |-> El(CourseTitleText), courseSubtitle |-> El(CourseSubtitleText),
     sectionTitle |-> El(SectionText), lectureTitle |-> El(LectureText),
     language |-> El(LanguageNodes)]

BareDom ==
    [courseTitle |-> NoEl, courseSubtitle |-> NoEl, sectionTitle |-> NoEl,
     lectureTitle |-> NoEl, language |-> NoEl]

\* Every combination of DOM elements is drawn with these blobs, and every
\* blob with these DOM states.
CoarseModuleArgs ==
    {[present |-> FALSE, parses |-> FALSE, data |-> Undef],
     [present |-> TRUE, parses |-> FALSE, data |-> Undef],
     [present |-> TRUE, parses |-> TRUE, data |-> FullBlob],
     [present |-> TRUE, parses |-> TRUE, data |-> BareBlob]}

CoarseDoms == {FullDom, BareDom}

-----------------------------------------------------------------------------
\* State machine.

OriginalLabel == "Copy Transcript"

\* What the clipboard holds before the script writes to it.
OldClipboard == <<"earlier clipboard content">>

\* The page's current selection, which execCommand("copy") copies.
Selection == <<"text selected on the page">>

\* last: event is the step taken ("nopanel", "notext", "write" by the click;
\* "copied", "failed" by the continuation after the await; "revert" by a
\* timer), inv the invocation, text the text it composed, panelFound and
\* ncues what the click found, primary and fallback the outcome of the
\* clipboard write and of execCommand, owner the invocation whose label a
\* revert replaced; for the event "inject", target is the element injectUI
\* was called with and uiBefore the number of containers in it before. The
\* events "load" and "loadfailed" are the settlement of loadSettings,
\* "toggle", "close", "tick" and "save" the steps of the settings panel, and
\* "reload" a new start of the script.
NoLast == [event |-> "none", inv |-> 0, text |-> EmptyText, panelFound |-> FALSE,
           ncues |-> 0, primary |-> "none", fallback |-> "none", owner |-> 0,
           target |-> 0, uiBefore |-> 0]

\* The state once the control has been injected and the settings saved by
\* the user are in memory, on any page.
ComposeInit ==
    /\ userSettings \in AllSettings
    /\ store = [kind |-> "text", text |-> stringify(userSettings)]
    /\ \/ /\ dom \in Doms /\ moduleArgs \in CoarseModuleArgs
          /\ panel = [present |-> TRUE, cues |-> Cues(MaxLines)]
       \/ /\ dom \in CoarseDoms /\ moduleArgs \in ModuleArgs
          /\ panel = [present |-> TRUE, cues |-> Cues(MaxLines)]
       \/ /\ dom \in CoarseDoms /\ moduleArgs \in CoarseModuleArgs
          /\ panel \in {[present |-> TRUE, cues |-> Cues(n)] : n \in 1..MaxLines}
    /\ label = OriginalLabel
    /\ labelBy = 0
    /\ clipboard = OldClipboard
    /\ calls = {}
    /\ timers = {}
    /\ nclicks = 0
    /\ last = NoLast
    /\ sidebar = 1
    /\ nsidebars = 1
    /\ observing = FALSE
    /\ loads = {}
    /\ detected = {1}
    /\ uiContainers = <<1>>
    /\ checkboxes = loadSettingsToUI(userSettings)
    /\ settingsShown = FALSE
    /\ saveLabel = SaveLabel
    /\ saveTimers = 0
    /\ saved = NotSaved

\* Steps 1 to 5 of handleCopyClick (lines 206-340): the text is composed.
Compose ==
    /\ last.event = "none"
    /\ transcriptStep(panel) = "write"
    /\ last' = [NoLast EXCEPT !.event = "composed", !.inv = 1,
                    !.panelFound = TRUE, !.ncues = Len(panel.cues),
                    !.text = transcriptText(userSettings, dom, moduleArgs, panel)]
    /\ UNCHANGED <<userSettings, store, dom, moduleArgs, panel, label, labelBy,
                   clipboard, calls, timers, nclicks, sidebar, nsidebars,
                   observing, loads, detected, uiContainers>>
    /\ UNCHANGED settingsUI

ComposeNext == Compose

SpecCompose == ComposeInit /\ [][ComposeNext]_vars

-----------------------------------------------------------------------------
\* The running script.

\* setTimeout delays of handleCopyClick, in seconds.
ErrorDelay == 3
ResultDelay == 2

Labels ==
    {OriginalLabel, "Copied!", "Copy Failed!", "No text found",
     "Error: Panel not found"}

\* The blob of a page whose rating is a string.
OddBlob ==
    [t |-> "obj", instructorInfo |-> Instructors,
     courseLeadData |-> [FullLead EXCEPT !.rating = Str("4.7")]]

MainModuleArgs ==
    {[present |-> TRUE, parses |-> FALSE, data |-> Undef],
     [present |-> TRUE, parses |-> TRUE, data |-> FullBlob],
     [present |-> TRUE, parses |-> TRUE, data |-> OddBlob]}

\* The stored values the running script is started with.
MainStores == {st \in Stores : st.kind = "absent" \/ Len(st.text.members) = 2}

\* The state when initObserver has run (lines 420-451): the observer is
\* connected, nothing is injected; the sidebar may be rendered already.
Init ==
    /\ userSettings = DEFAULT_SETTINGS
    /\ store \in MainStores
    /\ dom = FullDom
    /\ moduleArgs \in MainModuleArgs
    /\ panel \in Panels
    /\ label = OriginalLabel
    /\ labelBy = 0
    /\ clipboard = OldClipboard
    /\ calls = {}
    /\ timers = {}
    /\ nclicks = 0
    /\ last = NoLast
    /\ sidebar \in {0, 1}
    /\ nsidebars = sidebar
    /\ observing = TRUE
    /\ loads = {}
    /\ detected = {}
    /\ uiContainers = [i \in 1..sidebar |-> 0]
    /\ checkboxes = NoCheckboxes
    /\ settingsShown = FALSE
    /\ saveLabel = SaveLabel
    /\ saveTimers = 0
    /\ saved = NotSaved

\* document.getElementById('utc-ui-container') finds an element.
UIInDocument(sb, ui) == sb # 0 /\ ui[sb] > 0

\* The MutationObserver callback (lines 422-435) on a document whose sidebar
\* is sb: <<observing', loads'>>.
observerCallback(sb, obs, lds) ==
    IF obs /\ sb # 0
    THEN <<FALSE, lds \cup {sb}>>
    ELSE <<obs, lds>>

\* The host page renders a new sidebar instance; the observer is notified.
RenderSidebar ==
    /\ sidebar = 0
    /\ nsidebars < MaxSidebars
    /\ nsidebars' = nsidebars + 1
    /\ sidebar' = nsidebars + 1
    /\ uiContainers' = Append(uiContainers, 0)
    /\ observing' = observerCallback(sidebar', observing, loads)[1]
    /\ loads' = observerCallback(sidebar', observing, loads)[2]
    /\ detected' = detected \cup (loads' \ loads)
    /\ UNCHANGED <<userSettings, store, dom, moduleArgs, panel, label, labelBy,
                   clipboard, calls, timers, nclicks, last>>
    /\ UNCHANGED settingsUI

\* The host page removes the sidebar, with everything in it; the observer is
\* notified.
RemoveSidebar ==
    /\ sidebar # 0
    /\ sidebar' = 0
    /\ observing' = observerCallback(sidebar', observing, loads)[1]
    /\ loads' = observerCallback(sidebar', observing, loads)[2]
    /\ detected' = detected \cup (loads' \ loads)
    /\ UNCHANGED <<userSettings, store, dom, moduleArgs, panel, label, labelBy,
                   clipboard, calls, timers, nclicks, last, nsidebars,
                   uiContainers>>
    /\ UNCHANGED settingsUI

\* The host page changes the transcript panel; the observer is notified.
ChangePanel ==
    /\ \E p \in Panels : p # panel /\ panel' = p
    /\ observing' = observerCallback(sidebar, observing, loads)[1]
    /\ loads' = observerCallback(sidebar, observing, loads)[2]
    /\ detected' = detected \cup (loads' \ loads)
    /\ UNCHANGED <<userSettings, store, dom, moduleArgs, label, labelBy,
                   clipboard, calls, timers, nclicks, last, sidebar, nsidebars,
                   uiContainers>>
    /\ UNCHANGED settingsUI

\* injectUI without the check of lines 370-373.
injectUIUnguarded(target, sb, ui) == [ui EXCEPT ![target] = @ + 1]

\* injectUI (lines 369-413) with the element target: the new uiContainers.
injectUI(target, sb, ui) ==
    IF UIInDocument(sb, ui) THEN ui
    ELSE [ui EXCEPT ![target] = @ + 1]

\* GM_getValue resolves: loadSettings finishes and its .then runs injectUI
\* (lines 429-431). A new button carries the original label (line 393), and
\* a new settings panel is hidden, with its checkboxes built from
\* userSettings (lines 93-122, 381).
LoadSettingsDone ==
    \E target \in loads :
        /\ loads' = loads \ {target}
        /\ UNCHANGED detected
        /\ userSettings' = loadSettings(store)
        /\ uiContainers' = injectUI(target, sidebar, uiContainers)
        /\ label' = IF uiContainers' # uiContainers THEN OriginalLabel ELSE label
        /\ labelBy' = IF uiContainers' # uiContainers THEN 0 ELSE labelBy
        /\ IF uiContainers' # uiContainers
           THEN /\ checkboxes' = loadSettingsToUI(userSettings')
                /\ settingsShown' = FALSE
                /\ saveLabel' = SaveLabel
                /\ saveTimers' = 0
           ELSE UNCHANGED <<checkboxes, settingsShown, saveLabel, saveTimers>>
        /\ last' = [NoLast EXCEPT !.event = "load", !.target = target]
        /\ UNCHANGED <<store, dom, moduleArgs, panel, clipboard, calls, timers,
                       nclicks, sidebar, nsidebars, observing, saved>>

\* GM_getValue rejects: loadSettings rejects and injectUI is not called.
LoadSettingsFailed ==
    \E target \in loads :
        /\ loads' = loads \ {target}
        /\ UNCHANGED detected
        /\ last' = [NoLast EXCEPT !.event = "loadfailed", !.target = target]
        /\ UNCHANGED <<userSettings, store, dom, moduleArgs, panel, label,
                       labelBy, clipboard, calls, timers, nclicks, sidebar,
                       nsidebars, observing, uiContainers>>
        /\ UNCHANGED settingsUI

\* The timers after setTimeout(revert, delay) by invocation inv.
setTimeout(tm, inv, delay) == tm \cup {[inv |-> inv, left |-> delay]}

\* A click on the copy button: handleCopyClick up to its return or its await
\* (lines 204-343).
Click ==
    /\ UIInDocument(sidebar, uiContainers)
    /\ nclicks < MaxClicks
    /\ nclicks' = nclicks + 1
    /\ LET inv == nclicks + 1
           text == transcriptText(userSettings, dom, moduleArgs, panel)
           step == transcriptStep(panel)
           seen == [NoLast EXCEPT !.inv = inv, !.panelFound = panel.present,
                        !.ncues = Len(panel.cues), !.event = step]
       IN CASE step = "nopanel" ->
                /\ label' = "Error: Panel not found"
                /\ labelBy' = inv
                /\ timers' = setTimeout(timers, inv, ErrorDelay)
                /\ last' = seen
                /\ UNCHANGED calls
            [] step = "notext" ->
                /\ label' = "No text found"
                /\ labelBy' = inv
                /\ timers' = setTimeout(timers, inv, ErrorDelay)
                /\ last' = seen
                /\ UNCHANGED calls
            [] OTHER ->
                /\ calls' = calls \cup {[inv |-> inv, text |-> text]}
                /\ last' = [seen EXCEPT !.text = text]
                /\ UNCHANGED <<label, labelBy, timers>>
    /\ UNCHANGED <<userSettings, store, dom, moduleArgs, panel, clipboard,
                   sidebar, nsidebars, observing, loads, detected, uiContainers>>
    /\ UNCHANGED settingsUI

\* The outcomes of document.execCommand('copy'): it returns true after
\* copying the selection, returns false when the command is not enabled, or
\* throws.
ExecCommandOutcomes == {"true", "false", "throw"}

\* Lines 346-357: the catch block. <<label, clipboard>> after it.
catchBlock(clip, fb) ==
    CASE fb = "true" -> <<"Copied!", Selection>>
      [] fb = "false" -> <<"Copied!", clip>>
      [] OTHER -> <<"Copy Failed!", clip>>

\* navigator.clipboard.writeText resolves: lines 344-345 and 360-362.
WriteResolved ==
    \E c \in calls :
        /\ calls' = calls \ {c}
        /\ clipboard' = c.text
        /\ label' = "Copied!"
        /\ labelBy' = c.inv
        /\ timers' = setTimeout(timers, c.inv, ResultDelay)
        /\ last' = [NoLast EXCEPT !.event = "copied", !.inv = c.inv,
                        !.text = c.text, !.primary = "ok"]
        /\ UNCHANGED <<userSettings, store, dom, moduleArgs, panel, nclicks,
                       sidebar, nsidebars, observing, loads, detected, uiContainers>>
        /\ UNCHANGED settingsUI

\* navigator.clipboard.writeText rejects: lines 346-362.
WriteRejected ==
    \E c \in calls, fb \in ExecCommandOutcomes :
        /\ calls' = calls \ {c}
        /\ label' = catchBlock(clipboard, fb)[1]
        /\ clipboard' = catchBlock(clipboard, fb)[2]
        /\ labelBy' = c.inv
        /\ timers' = setTimeout(timers, c.inv, ResultDelay)
        /\ last' = [NoLast EXCEPT
                        !.event = IF label' = "Copied!" THEN "copied" ELSE "failed",
                        !.inv = c.inv, !.text = c.text, !.primary = "failed",
                        !.fallback = fb]
        /\ UNCHANGED <<userSettings, store, dom, moduleArgs, panel, nclicks,
                       sidebar, nsidebars, observing, loads, detected, uiContainers>>
        /\ UNCHANGED settingsUI

\* A revert callback that leaves the label as it is.
revertLabelKeep(lbl) == lbl

\* The label a revert timer writes (lines 321, 329, 361).
revertLabel(lbl) == OriginalLabel

\* A timer of handleCopyClick comes due and its callback runs.
TimerFires ==
    \E t \in timers :
        /\ t.left = 0
        /\ timers' = timers \ {t}
        /\ label' = revertLabel(label)
        /\ labelBy' = 0
        /\ last' = [NoLast EXCEPT !.event = "revert", !.inv = t.inv,
                        !.owner = labelBy]
        /\ UNCHANGED <<userSettings, store, dom, moduleArgs, panel, clipboard,
                       calls, nclicks, sidebar, nsidebars, observing, loads, detected,
                       uiContainers>>
        /\ UNCHANGED settingsUI

\* A second passes; no timer is overdue.
Tick ==
    /\ timers # {}
    /\ \A t \in timers : t.left > 0
    /\ timers' = {[t EXCEPT !.left = @ - 1] : t \in timers}
    /\ UNCHANGED <<userSettings, store, dom, moduleArgs, panel, label, labelBy,
                   clipboard, calls, nclicks, last, sidebar, nsidebars,
                   observing, loads, detected, uiContainers>>
    /\ UNCHANGED settingsUI

Next ==
    \/ RenderSidebar
    \/ RemoveSidebar
    \/ ChangePanel
    \/ LoadSettingsDone
    \/ LoadSettingsFailed
    \/ Click
    \/ WriteResolved
    \/ WriteRejected
    \/ TimerFires
    \/ Tick

Spec == Init /\ [][Next]_vars

\* Every started clipboard write completes, every pending timer fires, time
\* passes.
Fairness ==
    /\ WF_vars(WriteResolved \/ WriteRejected)
    /\ WF_vars(TimerFires)
    /\ WF_vars(Tick)

FairInit ==
    /\ Init
    /\ store = NoStore
    /\ moduleArgs.parses

FairSpec == FairInit /\ [][Next]_vars /\ Fairness

\* injectUI called once more with the sidebar that is in the document, as a
\* watcher that stays subscribed calls it on every batch of mutations.
InjectAgain ==
    /\ sidebar # 0
    /\ uiContainers' = injectUI(sidebar, sidebar, uiContainers)
    /\ label' = IF uiContainers' # uiContainers THEN OriginalLabel ELSE label
    /\ labelBy' = IF uiContainers' # uiContainers THEN 0 ELSE labelBy
    /\ IF uiContainers' # uiContainers
       THEN /\ checkboxes' = loadSettingsToUI(userSettings)
            /\ settingsShown' = FALSE
            /\ saveLabel' = SaveLabel
            /\ saveTimers' = 0
       ELSE UNCHANGED <<checkboxes, settingsShown, saveLabel, saveTimers>>
    /\ last' = [NoLast EXCEPT !.event = "inject", !.target = sidebar,
                    !.uiBefore = uiContainers[sidebar]]
    /\ UNCHANGED <<userSettings, store, dom, moduleArgs, panel, clipboard, calls,
                   timers, nclicks, sidebar, nsidebars, observing, loads, detected,
                   saved>>

\* The script on a page whose transcript panel stays as it is.
InjectInit ==
    /\ FairInit
    /\ moduleArgs.data = FullBlob

InjectNext ==
    \/ RenderSidebar
    \/ RemoveSidebar
    \/ LoadSettingsDone
    \/ LoadSettingsFailed
    \/ Click
    \/ WriteResolved
    \/ WriteRejected
    \/ TimerFires
    \/ Tick
    \/ InjectAgain

SpecInject == InjectInit /\ [][InjectNext]_vars

-----------------------------------------------------------------------------
\* The settings panel in the running script.

Others ==
    <<dom, moduleArgs, panel, label, labelBy, clipboard, calls, timers, nclicks,
      sidebar, nsidebars, observing, loads, detected, uiContainers>>

\* A click on the settings button: toggleSettingsPanel (lines 163-173, 405).
ToggleSettingsPanel ==
    /\ UIInDocument(sidebar, uiContainers)
    /\ settingsShown' = toggleSettingsPanel(settingsShown, userSettings, checkboxes)[1]
    /\ checkboxes' = toggleSettingsPanel(settingsShown, userSettings, checkboxes)[2]
    /\ last' = [NoLast EXCEPT !.event = "toggle"]
    /\ UNCHANGED <<userSettings, store, saveLabel, saveTimers, saved>>
    /\ UNCHANGED Others

\* A click on the close button of the settings panel (lines 116-118).
CloseSettingsPanel ==
    /\ UIInDocument(sidebar, uiContainers)
    /\ settingsShown
    /\ settingsShown' = FALSE
    /\ last' = [NoLast EXCEPT !.event = "close"]
    /\ UNCHANGED <<userSettings, store, checkboxes, saveLabel, saveTimers, saved>>
    /\ UNCHANGED Others

\* The user ticks or unticks one of the checkboxes named in keys; no handler
\* of the script runs.
TickCheckbox(keys) ==
    /\ UIInDocument(sidebar, uiContainers)
    /\ settingsShown
    /\ \E k \in keys \cap DOMAIN checkboxes :
            checkboxes' = [checkboxes EXCEPT ![k] = ~@]
    /\ last' = [NoLast EXCEPT !.event = "tick"]
    /\ UNCHANGED <<userSettings, store, settingsShown, saveLabel, saveTimers, saved>>
    /\ UNCHANGED Others

\* A click on the save button: saveSettings (lines 64-87). GM_setValue
\* stores the value at once.
SaveSettings ==
    /\ UIInDocument(sidebar, uiContainers)
    /\ settingsShown
    /\ saveTimers < MaxSaveTimers
    /\ userSettings' = saveSettings(userSettings, checkboxes).settings
    /\ store' = saveSettings(userSettings, checkboxes).stored
    /\ saveLabel' = SavedLabel
    /\ saveTimers' = saveTimers + 1
    /\ saved' = [valid |-> TRUE, rec |-> userSettings']
    /\ last' = [NoLast EXCEPT !.event = "save"]
    /\ UNCHANGED <<checkboxes, settingsShown>>
    /\ UNCHANGED Others

\* A timer of saveSettings comes due (lines 83-85).
SaveTimerFires ==
    /\ saveTimers > 0
    /\ saveTimers' = saveTimers - 1
    /\ saveLabel' = SaveLabel
    /\ UNCHANGED <<userSettings, store, checkboxes, settingsShown, saved, last>>
    /\ UNCHANGED Others

\* The checkbox the user ticks in SpecPrefs.
FewKeys == {"includeRating"}

TickFew == TickCheckbox(FewKeys)

\* The script from its start on a page whose sidebar is rendered later, with
\* the settings panel in use; the stored record is one of an older version,
\* with the rating and length flags off.
PrefsInit ==
    /\ Init
    /\ sidebar = 0
    /\ moduleArgs.data = FullBlob
    /\ store.kind = "text"

PrefsNext ==
    \/ RenderSidebar
    \/ LoadSettingsDone
    \/ LoadSettingsFailed
    \/ Click
    \/ WriteResolved
    \/ WriteRejected
    \/ TimerFires
    \/ Tick
    \/ ToggleSettingsPanel
    \/ CloseSettingsPanel
    \/ TickFew
    \/ SaveSettings
    \/ SaveTimerFires

SpecPrefs == PrefsInit /\ [][PrefsNext]_vars

\* The page is loaded anew: the script starts again (lines 13-451) with the
\* stored value as it is; the sidebar is rendered later.
Reload ==
    /\ userSettings' = DEFAULT_SETTINGS
    /\ label' = OriginalLabel
    /\ labelBy' = 0
    /\ calls' = {}
    /\ timers' = {}
    /\ sidebar' = 0
    /\ nsidebars' = 0
    /\ observing' = TRUE
    /\ loads' = {}
    /\ detected' = {}
    /\ uiContainers' = <<>>
    /\ checkboxes' = NoCheckboxes
    /\ settingsShown' = FALSE
    /\ saveLabel' = SaveLabel
    /\ saveTimers' = 0
    /\ last' = [NoLast EXCEPT !.event = "reload"]
    /\ UNCHANGED <<store, dom, moduleArgs, panel, clipboard, nclicks, saved>>

\* The state with the control injected, the settings panel open and any
\* checkboxes ticked by the user, for any stored value the script was started
\* with.
SettingsInit ==
    /\ store \in Stores
    /\ userSettings = loadSettings(store)
    /\ checkboxes \in [DOMAIN userSettings -> BOOLEAN]
    /\ settingsShown = TRUE
    /\ saveLabel = SaveLabel
    /\ saveTimers = 0
    /\ saved = NotSaved
    /\ dom = FullDom
    /\ moduleArgs = [present |-> TRUE, parses |-> TRUE, data |-> FullBlob]
    /\ panel = [present |-> TRUE, cues |-> Cues(MaxLines)]
    /\ label = OriginalLabel
    /\ labelBy = 0
    /\ clipboard = OldClipboard
    /\ calls = {}
    /\ timers = {}
    /\ nclicks = 0
    /\ last = NoLast
    /\ sidebar = 1
    /\ nsidebars = 1
    /\ observing = FALSE
    /\ loads = {}
    /\ detected = {1}
    /\ uiContainers = <<1>>

SettingsNext ==
    \/ SaveSettings
    \/ ToggleSettingsPanel
    \/ CloseSettingsPanel
    \/ SaveTimerFires
    \/ Reload
    \/ RenderSidebar
    \/ LoadSettingsDone
    \/ LoadSettingsFailed

SpecSettings == SettingsInit /\ [][SettingsNext]_vars

-----------------------------------------------------------------------------
\* Reading a composed text back.

StartsWith(l, p) == Len(l) >= Len(p) /\ SubSeq(l, 1, Len(p)) = p

\* The text composed by the invocation recorded in last.
Composed == last.event \in {"composed", "write"}
Has(t, l) == \E i \in 1..Len(t) : t[i] = l
HasPrefix(t, p) == \E i \in 1..Len(t) : StartsWith(t[i], p)
SepCount(t) == Cardinality({i \in 1..Len(t) : t[i] = "---"})

\* The lines the drawn pages give rise to, written out.
TitleLine == "# Learn TLA"
SubtitleLine == "## *Specify systems*"
SectionValue == IF dom.sectionTitle.found THEN "Section 1: Intro" ELSE "Unknown Section"
LectureValue == IF dom.lectureTitle.found THEN "1. Welcome" ELSE "Unknown Lecture"
InstructorsLine == "* **Instructors:** Ann Lee (Engineer), Bo Li (Teacher)"
LengthLine == "* **Total Length:** 12.5 total hours"
UpdatedLine == "* **Last Updated:** 11/2025"
CaptionsLine == "* **Captions:** English, French"
LanguageLine == "* **Language:** English"
RatingPrefix == "* **Rating:** "

Flag(k) == userSettings[k]
BlobParsed == moduleArgs.present /\ moduleArgs.parses
LeadPresent == BlobParsed /\ moduleArgs.data.courseLeadData.t = "obj"
LeadVal(f) == IF LeadPresent THEN moduleArgs.data.courseLeadData[f] ELSE Undef
InstructorsVal ==
    IF BlobParsed /\ moduleArgs.data.instructorInfo.t = "obj"
    THEN moduleArgs.data.instructorInfo.instructors_info ELSE Undef

\* Building the header hits a value of the wrong type and throws.
BuildThrew ==
    /\ BlobParsed
    /\ \/ Flag("includeRating") /\ LeadVal("rating").t \notin {"undef", "num"}
       \/ Flag("includeCaptions") /\ LeadVal("captionedLanguages").t = "str"
       \/ Flag("includeInstructors") /\ InstructorsVal.t \notin {"undef", "list"}

AppearsTitle(t) == Has(t, TitleLine)
AppearsSubtitle(t) == Has(t, SubtitleLine)
AppearsSectionLecture(t) ==
    \/ HasPrefix(t, "**Section:** ") \/ HasPrefix(t, "**Lecture:** ")
    \/ Has(t, "# Section 1: Intro") \/ Has(t, "# Unknown Section")
    \/ Has(t, "## 1. Welcome") \/ Has(t, "## Unknown Lecture")
AppearsInstructors(t) == HasPrefix(t, "* **Instructors:** ")
AppearsRating(t) == HasPrefix(t, RatingPrefix)
AppearsLength(t) == HasPrefix(t, "* **Total Length:** ")
AppearsUpdated(t) == HasPrefix(t, "* **Last Updated:** ")
AppearsCaptions(t) == HasPrefix(t, "* **Captions:** ")
AppearsLanguage(t) == HasPrefix(t, "* **Language:** ")
AppearsBullet(t) == HasPrefix(t, "* **")
AppearsDetailsHeading(t) == Has(t, "**Course Details:**")

-----------------------------------------------------------------------------
-----------------------------------------------------------------------------
\* The blocks of the header, by what the page and the flags give them.
TitleBlockEmpty ==
    /\ ~(Flag("includeCourseTitle") /\ dom.courseTitle.found)
    /\ ~(Flag("includeCourseSubtitle") /\ dom.courseSubtitle.found)

\* No detail has both its flag set and a value found.
DetailsAllAbsent ==
    /\ ~(Flag("includeInstructors") /\ InstructorsVal.t # "undef")
    /\ ~(Flag("includeRating")
            /\ (LeadVal("rating").t # "undef" \/ LeadVal("num_reviews").t # "undef"))
    /\ ~(Flag("includeLength") /\ LeadVal("content_info_short").t # "undef")
    /\ ~(Flag("includeLastUpdated") /\ LeadVal("last_update_date").t # "undef")
    /\ ~(Flag("includeCaptions") /\ LeadVal("captionedLanguages").t # "undef")
    /\ ~(Flag("includeLanguage") /\ dom.language.found)

\* No detail bullet is produced: as DetailsAllAbsent, but the rating bullet
\* is produced whenever courseLeadData exists.
DetailsNoBullet ==
    /\ ~(Flag("includeInstructors") /\ InstructorsVal.t # "undef")
    /\ ~(Flag("includeRating") /\ LeadPresent)
    /\ ~(Flag("includeLength") /\ LeadVal("content_info_short").t # "undef")
    /\ ~(Flag("includeLastUpdated") /\ LeadVal("last_update_date").t # "undef")
    /\ ~(Flag("includeCaptions") /\ LeadVal("captionedLanguages").t # "undef")
    /\ ~(Flag("includeLanguage") /\ dom.language.found)

Bool2Nat(b) == IF b THEN 1 ELSE 0

-----------------------------------------------------------------------------
\* The trimmed text of the i-th cue of the drawn panels, written out.
CueLine(i) == IF i % 2 = 1 THEN "Hello " \o ToString(i) ELSE "foo  bar" \o ToString(i)

\* The place of a line in the fixed order; 0 for a line that has no place.
\* The three separators have the places 3, 6 and 14.
Place(l, ncues) ==
    CASE l = TitleLine -> 1
      [] l = SubtitleLine -> 2
      [] StartsWith(l, "**Section:** ") -> 4
      [] l \in {"# Section 1: Intro", "# Unknown Section"} -> 4
      [] StartsWith(l, "**Lecture:** ") -> 5
      [] l \in {"## 1. Welcome", "## Unknown Lecture"} -> 5
      [] l = "**Course Details:**" -> 7
      [] StartsWith(l, "* **Instructors:** ") -> 8
      [] StartsWith(l, RatingPrefix) -> 9
      [] StartsWith(l, "* **Total Length:** ") -> 10
      [] StartsWith(l, "* **Last Updated:** ") -> 11
      [] StartsWith(l, "* **Captions:** ") -> 12
      [] StartsWith(l, "* **Language:** ") -> 13
      [] l = "## Transcript" -> 15
      [] l = "" -> 16
      [] \E i \in 1..ncues : l = CueLine(i) ->
            16 + (CHOOSE i \in 1..ncues : l = CueLine(i))
      [] OTHER -> 0

\* The lines t[i..] can be given strictly increasing places above r.
RECURSIVE InOrder(_, _, _, _)
InOrder(t, i, r, ncues) ==
    IF i > Len(t) THEN TRUE
    ELSE IF t[i] = "---"
         THEN /\ r < 14
              /\ InOrder(t, i + 1, IF r < 3 THEN 3 ELSE IF r < 6 THEN 6 ELSE 14, ncues)
         ELSE /\ Place(t[i], ncues) > r
              /\ InOrder(t, i + 1, Place(t[i], ncues), ncues)

\* C6: the lines present in a composed text occur in the fixed order
\* course title, subtitle, separator, section, lecture, separator, "Course
\* Details" heading, instructors, rating, length, last updated, captions,
\* language, separator, "Transcript" heading, transcript lines.
C6Theorem ==
    Composed => InOrder(last.text, 1, 0, Len(panel.cues))

\* A composed text that holds every line of the order.
C6Witness ==
    /\ last.event = "composed"
    /\ userSettings = DEFAULT_SETTINGS
    /\ BlobParsed /\ ~BuildThrew
    /\ Len(last.text) = 15 + Len(panel.cues)
    /\ SepCount(last.text) = 3

-----------------------------------------------------------------------------
\* C1: an invocation that finds the transcript panel but no cue-text element
\* in it attempts no clipboard write, sets the label to "No text found" and
\* ends, whatever the settings and the metadata are.
C1Theorem ==
    (last.event \in {"nopanel", "notext", "write"} /\ last.panelFound /\ last.ncues = 0)
        => /\ last.event = "notext"
           /\ label = "No text found"
           /\ labelBy = last.inv
           /\ \A c \in calls : c.inv # last.inv
           /\ \E t \in timers : t.inv = last.inv

\* An invocation has just found a panel without lines.
C1Witness ==
    /\ last.event = "notext"
    /\ last.panelFound /\ last.ncues = 0
    /\ label = "No text found"
    /\ \E t \in timers : t.inv = last.inv

\* C2: in an invocation that reaches the clipboard step the fallback is
\* attempted exactly once and only after the primary write failed, and the
\* label it leaves is "Copy Failed!" if and only if both the primary write and
\* the fallback failed, and "Copied!" in every other case.
C2Claim ==
    last.event \in {"copied", "failed"} =>
        /\ (last.fallback # "none") <=> (last.primary = "failed")
        /\ (label = "Copy Failed!") <=>
                (last.primary = "failed" /\ last.fallback \in {"false", "throw"})
        /\ label \in {"Copy Failed!", "Copied!"}

\* C3: whenever an invocation sets the label to "Copied!", the clipboard
\* holds the text that invocation composed.
C3Claim ==
    last.event = "copied" => clipboard = last.text

\* C7: at most one revert timer is pending at any time, and a revert never
\* replaces the result label of an invocation later than the one that set
\* the timer.
C7Claim ==
    /\ Cardinality(timers) <= 1
    /\ last.event = "revert" => last.inv >= last.owner

\* C8: the label is always one of the five labels, and once the clicks have
\* stopped, every started write has completed and every timer has fired, it
\* is and stays "Copy Transcript".
C8Theorem ==
    /\ [](label \in Labels)
    /\ <>[](label = OriginalLabel)

\* All clicks are used up, every write has completed and the last timer has
\* just reverted the label.
C8Witness ==
    /\ last.event = "revert"
    /\ label = OriginalLabel
    /\ nclicks = MaxClicks
    /\ timers = {} /\ calls = {}

\* The number of injected containers in the document.
DocCount == IF sidebar = 0 THEN 0 ELSE uiContainers[sidebar]

\* C9: the document never holds more than one injected container, and
\* injectUI called while one is present leaves it at that one.
C9Theorem ==
    /\ DocCount <= 1
    /\ (last.event = "inject" /\ last.uiBefore > 0 /\ sidebar = last.target)
            => uiContainers[sidebar] = last.uiBefore

\* injectUI has been called on a document that held a container already.
C9Witness ==
    /\ last.event = "inject"
    /\ last.uiBefore = 1
    /\ sidebar = last.target
    /\ DocCount = 1

\* C10: the watcher invokes injection for every sidebar instance: an
\* instance rendered after an earlier one was removed gets the control too.
C10Claim ==
    sidebar >= 2 => sidebar \in detected

-----------------------------------------------------------------------------
\* C11: a sidebar that is in the document when the watcher is started is
\* checked for at once, so the injection for it is under way from the start
\* on, with no further mutation of the document; the first sidebar instance
\* is never in the document without its injection having been started.
C11Claim ==
    sidebar = 1 => 1 \in detected

-----------------------------------------------------------------------------
\* The nine flags all true, written out.
AllTrue ==
    [includeCourseTitle |-> TRUE, includeCourseSubtitle |-> TRUE,
     includeSectionLecture |-> TRUE, includeInstructors |-> TRUE,
     includeRating |-> TRUE, includeLength |-> TRUE, includeLastUpdated |-> TRUE,
     includeCaptions |-> TRUE, includeLanguage |-> TRUE]

\* C12: a save puts the ticked assignment of the nine flags in memory, and
\* the load of the next script start yields a record equal to the saved one;
\* a load with no value in the store yields the nine flags all true.
C12Theorem ==
    /\ last.event = "save" =>
            /\ saved.valid /\ saved.rec = userSettings
            /\ \A k \in SettingKeys : userSettings[k] = checkboxes[k]
    /\ (last.event = "load" /\ saved.valid) => userSettings = saved.rec
    /\ (last.event = "load" /\ store.kind = "absent") => userSettings = AllTrue

\* A record with some flags off has been saved and loaded back by the next
\* script start.
C12Witness ==
    /\ last.event = "load"
    /\ saved.valid
    /\ ~saved.rec["includeRating"] /\ saved.rec["includeCourseTitle"]
    /\ ~saved.rec["includeLanguage"]
    /\ userSettings = saved.rec

\* The stored JSON text has a member named k; its value is that of the last
\* such member.
StoredHas(k) ==
    /\ store.kind = "text" /\ store.text.ok
    /\ \E i \in 1..Len(store.text.members) : store.text.members[i][1] = k

StoredVal(k) ==
    LET ms == store.text.members
        i == CHOOSE j \in 1..Len(ms) :
                ms[j][1] = k /\ \A h \in (j + 1)..Len(ms) : ms[h][1] # k
    IN ms[i][2]

\* C17: after loadSettings the record in memory defines every one of the
\* nine flags; a flag the stored text has carries its stored value, a flag it
\* lacks is true, and a text that does not parse gives the nine flags all
\* true.
C17Theorem ==
    last.event = "load" =>
        /\ SettingKeys \subseteq DOMAIN userSettings
        /\ \A k \in SettingKeys :
                userSettings[k] = (IF StoredHas(k) THEN StoredVal(k) ELSE TRUE)
        /\ (store.kind = "text" /\ ~store.text.ok) => userSettings = AllTrue

\* loadSettings has returned on a stored record that has two of the flags,
\* and on one with a key that is no flag.
C17Witness ==
    /\ last.event = "load"
    /\ ~saved.valid
    /\ store.kind = "text" /\ store.text.ok
    /\ \/ /\ Len(store.text.members) = 2
          /\ ~userSettings["includeRating"] /\ userSettings["includeCourseTitle"]
       \/ /\ "showTimestamps" \in DOMAIN userSettings
          /\ ~userSettings["includeLanguage"] /\ userSettings["includeRating"]

-----------------------------------------------------------------------------
\* The trimmed texts of the first n cues, written out.
CueLines(n) == [i \in 1..n |-> CueLine(i)]

\* C13: without a parsed blob (attribute missing or unparsable) the
\* invocation goes on to compose its text, and the text is the section title
\* and the lecture title from the sidebar, when includeSectionLecture is
\* true, followed by the transcript lines: no course title, subtitle, Course
\* Details block, separator or Transcript heading, whatever the other flags
\* are.
C13Theorem ==
    (Composed /\ ~BlobParsed) =>
        last.text =
            (IF Flag("includeSectionLecture")
             THEN <<"# " \o SectionValue, "## " \o LectureValue>>
             ELSE <<>>) \o CueLines(last.ncues)

\* A text composed on a page without a parsed blob whose DOM has the course
\* title, with every flag set.
C13Witness ==
    /\ last.event = "composed"
    /\ ~BlobParsed
    /\ userSettings = DEFAULT_SETTINGS
    /\ dom.courseTitle.found /\ dom.language.found
    /\ Len(last.text) = 2 + last.ncues
    /\ last.text[1] = "# Section 1: Intro"

-----------------------------------------------------------------------------
\* What the rating line shows for the drawn rating and review-count values,
\* written out; "N/A" for a missing value or a zero.
RatingShown ==
    CASE LeadVal("rating") = Num(4666) -> "4.67"
      [] LeadVal("rating") = Str("4.7") -> "4.7"
      [] OTHER -> "N/A"

ReviewsShown ==
    CASE LeadVal("num_reviews") = Num(12345000) -> "12,345"
      [] LeadVal("num_reviews") = Str("12k") -> "12k"
      [] OTHER -> "N/A"

\* C18: with includeRating true and courseLeadData there, the rating line
\* shows the rating and the review count, each "N/A" on its own when it is
\* missing, and whatever the rating and the review count are (absent, zero,
\* a number, not a number) the header is built: the rating line and the
\* Transcript heading are in the text, and so are the section and lecture
\* lines when includeSectionLecture is true.
C18Claim ==
    (Composed /\ LeadPresent /\ Flag("includeRating")) =>
        LET t == last.text IN
        /\ Has(t, RatingPrefix \o RatingShown \o " (" \o ReviewsShown \o " reviews)")
        /\ Has(t, "## Transcript")
        /\ Flag("includeSectionLecture") =>
                /\ Has(t, "**Section:** " \o SectionValue)
                /\ Has(t, "**Lecture:** " \o LectureValue)

\* C19: the composed text ends with the trimmed texts of the panel's n line
\* elements, one line each, in document order, and none of them occurs in
\* the lines before; the header, whatever it holds, ends before the first of
\* them.
C19Theorem ==
    Composed =>
        LET t == last.text
            n == Len(panel.cues)
        IN /\ n >= 1
           /\ Len(t) >= n
           /\ \A i \in 1..n : t[Len(t) - n + i] = CueLine(i)
           /\ \A j \in 1..(Len(t) - n) : \A i \in 1..n : t[j] # CueLine(i)
           /\ \A i \in 1..n : CueLine(i) = Trim(panel.cues[i])

\* A text composed with a full header from a panel of MaxLines lines whose
\* texts carry white space around them.
C19Witness ==
    /\ last.event = "composed"
    /\ Len(panel.cues) = MaxLines
    /\ panel.cues[1] = " Hello 1 "
    /\ last.text[Len(last.text) - MaxLines + 1] = "Hello 1"
    /\ Len(last.text) > MaxLines + 10

-----------------------------------------------------------------------------
\* The steps handleCopyClick ends its synchronous part with.
ClickEvents == {"nopanel", "notext", "write"}

\* C14: an invocation that finds no transcript panel starts no clipboard
\* write and sets the label to "Error: Panel not found" (with its revert
\* timer); an invocation that finds the panel with lines, also one after such
\* a failure, hands the composed text to the clipboard write, and when that
\* write succeeds the clipboard holds the text and the label is "Copied!".
C14Theorem ==
    /\ (last.event \in ClickEvents /\ ~last.panelFound) =>
            /\ last.event = "nopanel"
            /\ label = "Error: Panel not found"
            /\ labelBy = last.inv
            /\ \A c \in calls : c.inv # last.inv
            /\ \E t \in timers : t.inv = last.inv /\ t.left <= ErrorDelay
    /\ (last.event \in ClickEvents /\ last.panelFound /\ last.ncues > 0) =>
            /\ last.event = "write"
            /\ [inv |-> last.inv, text |-> last.text] \in calls
            /\ Len(last.text) >= last.ncues
            /\ \A i \in 1..last.ncues :
                    last.text[Len(last.text) - last.ncues + i] = CueLine(i)
    /\ (last.event = "copied" /\ last.primary = "ok") =>
            /\ clipboard = last.text
            /\ label = "Copied!"
            /\ labelBy = last.inv

\* The second click has found the panel with its lines and started the
\* clipboard write while the label still shows the first click's "Error:
\* Panel not found".
C14Witness ==
    /\ last.event = "write"
    /\ last.inv = 2
    /\ label = "Error: Panel not found"
    /\ labelBy = 1
    /\ \E c \in calls : c.inv = 2 /\ c.text = last.text
    /\ \A c \in calls : c.inv # 1

\* C15: the watcher stays subscribed while a settings load is pending and
\* after a settings load has failed, so that a later notification with the
\* sidebar in the document starts the injection again.
C15Claim ==
    (loads # {} \/ last.event = "loadfailed") => observing

\* C20: when building the header throws on a parsed blob, the invocation
\* goes through the panel and line checks as ever, the text it composes is
\* the transcript lines alone, with no header line, and the clipboard write
\* and the label feedback follow: after the write the label is "Copied!" or
\* "Copy Failed!" with its revert timer, and after a successful write the
\* clipboard holds the transcript lines.
C20Theorem ==
    /\ (last.event \in ClickEvents /\ BuildThrew) =>
            /\ last.event = (IF ~last.panelFound THEN "nopanel"
                             ELSE IF last.ncues = 0 THEN "notext" ELSE "write")
            /\ last.event = "write" =>
                    /\ last.text = CueLines(last.ncues)
                    /\ [inv |-> last.inv, text |-> last.text] \in calls
    /\ (last.event \in {"copied", "failed"} /\ BuildThrew) =>
            /\ last.text = CueLines(Len(last.text))
            /\ label \in {"Copied!", "Copy Failed!"}
            /\ labelBy = last.inv
            /\ \E t \in timers : t.inv = last.inv /\ t.left <= ResultDelay
            /\ last.primary = "ok" => clipboard = last.text

\* On a page whose rating is a string, with includeRating set, the clipboard
\* write of the transcript lines alone has succeeded.
C20Witness ==
    /\ last.event = "copied"
    /\ last.primary = "ok"
    /\ BuildThrew
    /\ LeadVal("rating").t = "str"
    /\ clipboard = CueLines(MaxLines)
    /\ label = "Copied!"

-----------------------------------------------------------------------------
\* The stored text st holds exactly the members of the record rec.
StoresRecord(st, rec) ==
    /\ st.kind = "text" /\ st.text.ok
    /\ Len(st.text.members) = Cardinality(DOMAIN rec)
    /\ \A k \in DOMAIN rec :
            \E i \in 1..Len(st.text.members) : st.text.members[i] = <<k, rec[k]>>

\* C16: a step changes the record in memory only if it is a save or the
\* load of the script's start, and the stored value only if it is a save;
\* clicks on the copy button and their completions, the label timers,
\* opening and closing the settings panel and ticking a checkbox change
\* neither. A save stores exactly the record that is in memory after it, and
\* that record has the ticked states of the nine checkboxes.
C16Theorem ==
    [][/\ userSettings' # userSettings => last'.event \in {"save", "load"}
       /\ userSettings' # userSettings => (SaveSettings \/ LoadSettingsDone)
       /\ store' # store => SaveSettings
       /\ last'.event \in {"nopanel", "notext", "write", "copied", "failed",
                           "revert", "toggle", "close", "tick"}
            => (userSettings' = userSettings /\ store' = store)
       /\ SaveSettings =>
            /\ StoresRecord(store', userSettings')
            /\ \A k \in SettingKeys : userSettings'[k] = checkboxes[k]]_vars

\* After a copy, the user has opened the settings panel, ticked the rating
\* checkbox, which the loaded record had off, and saved: memory and store
\* hold the new record.
C16Witness ==
    /\ last.event = "save"
    /\ nclicks >= 1
    /\ userSettings["includeRating"]
    /\ ~userSettings["includeLength"]
    /\ StoresRecord(store, userSettings)
    /\ saveLabel = SavedLabel

====
